---- MODULE Spec2Model ----
(***************************************************************************)
(* One round of apply_changes (src/agent/main.py) together with the        *)
(* WorktreeManager and ParallelValidator of src/agent/tools.py.            *)
(*                                                                         *)
(* The orchestrator thread runs apply_changes; each candidate's            *)
(* validate_candidate call runs on its own pool thread.  The file system   *)
(* is the primary tree's target file, the existence of its parent          *)
(* directory, and the directories under .agent_worktrees.                  *)
(*                                                                         *)
(* Candidates are numbered k = 1..Count as in the log message              *)
(* "Candidate {i + 1}"; candidate k is validated in worktree "val-{k-1}",  *)
(* which the model names k.                                                *)
(***************************************************************************)
EXTENDS Integers, Sequences, FiniteSets, TLC

\* generate_candidates(user_request, target_file, count = 2)
Count == 2

\* Number of distinct source texts the generator may propose.
MaxText == 2

Names == 1..Count

\* A source text: its identity and whether ast.parse accepts it.
Texts == [id : 1..MaxText, wf : BOOLEAN]

\* The text of the target file before the round.
OriginalText == [id |-> 0, wf |-> TRUE]

\* A file is <<>> when missing and <<text>> when present.
NoFile == <<>>

\* test_code of a parsed response: "" when the response held one block only.
TestCodes == {"", "test"}

\* One parsed response kept by generate_candidates (new_code is never empty).
Candidates == [new_code : Texts, test_code : TestCodes]

\* Lists of at most Count candidates.
CandidateLists == UNION {[1..n -> Candidates] : n \in 0..Count}

\* ---- worktree directories ------------------------------------------------

\* No directory of that name under .agent_worktrees.
Absent == [exists |-> FALSE, src |-> NoFile, test |-> FALSE]

\* A directory left behind by an earlier round, with its test_candidate.py.
Stale == [exists |-> TRUE, src |-> NoFile, test |-> TRUE]

\* What a failed "git worktree add" may leave on disk.
Partial == [exists |-> TRUE, src |-> NoFile, test |-> FALSE]

\* A new checkout: the target file as the tree holds it, no test_candidate.py.
Fresh(file) == [exists |-> TRUE, src |-> file, test |-> FALSE]

\* "git worktree remove --force": exit 0, non-zero exit (not checked), or
\* subprocess.run itself raising.
GitRemoveOutcomes == {"removed", "nonzero", "raised"}

\* "git worktree add" with check=True: exit 0, or a failure that leaves
\* nothing, or a failure that leaves a directory behind.
GitAddOutcomes == {"ok", "failed", "failed_partial"}

\* The directory after subprocess.run(["git","worktree","remove",...]).
AfterGitRemove(w, outcome) == IF outcome = "removed" THEN Absent ELSE w

\* cleanup_worktree without the forced delete of its finally block.
CleanupWorktreeNoRmtree(w, outcome) ==
    IF ~w.exists THEN w ELSE AfterGitRemove(w, outcome)

\* cleanup_worktree(name): return at once when the path is missing; else run
\* git (a failure is printed, never raised) and, in the finally block,
\* rmtree whatever is still there.
CleanupWorktree(w, outcome) ==
    IF ~w.exists THEN w
    ELSE LET g == AfterGitRemove(w, outcome)
         IN  IF g.exists THEN Absent ELSE g

\* Whether cleanup_worktree lets an exception out: subprocess.run either
\* returns (its exit status is not checked) or raises an Exception, which the
\* except clause prints; os.path.exists and rmtree(ignore_errors=True) raise
\* nothing.
CleanupWorktreeRaises(w, outcome) ==
    w.exists /\ outcome \notin {"removed", "nonzero", "raised"}

\* One run of cleanup_worktree past its early return: whether git removed
\* the directory, whether the directory is still there at the end, and
\* whether an exception got out.
Removal(w, outcome) ==
    [by_git |-> ~AfterGitRemove(w, outcome).exists,
     left |-> CleanupWorktree(w, outcome).exists,
     raised |-> CleanupWorktreeRaises(w, outcome)]

\* create_worktree returning the path of a directory that is already there,
\* without cleaning it up and without a new checkout.
CreateWorktreeReusesExisting(w, rm, add, file) ==
    IF w.exists THEN [dir |-> w, ok |-> TRUE]
    ELSE IF add = "ok" THEN [dir |-> Fresh(file), ok |-> TRUE]
    ELSE [dir |-> IF add = "failed_partial" THEN Partial ELSE w, ok |-> FALSE]

\* create_worktree(name) on directory w: the directory afterwards and whether
\* the path is returned (ok) or RuntimeError raised.  An existing directory
\* is cleaned up first; "git worktree add" refuses a path that is still
\* there, and otherwise makes the checkout or fails.
CreateWorktreeResult(w, rm, add, file) ==
    LET cleaned == CleanupWorktree(w, rm) IN
    IF cleaned.exists THEN [dir |-> cleaned, ok |-> FALSE]
    ELSE IF add = "ok" THEN [dir |-> Fresh(file), ok |-> TRUE]
    ELSE [dir |-> IF add = "failed_partial" THEN Partial ELSE cleaned,
          ok |-> FALSE]

\* ---- paths ---------------------------------------------------------------

\* Where a write of validation task k lands: in worktree k or in the primary
\* tree.
InWorktree(k) == [tree |-> "worktree", wt |-> k]
InPrimary == [tree |-> "primary", wt |-> 0]

\* full_target_path = join(wt_path, relpath(target_file, wt_path)) for an
\* absolute target_file, which resolves to target_file itself; and
\* join(wt_path, target_file) for a relative one.
FullTargetPath(abs, k) == IF abs THEN InPrimary ELSE InWorktree(k)

\* test_filename = join(wt_path, "sandbox/test_candidate.py")
TestFilename(k) == InWorktree(k)

\* ---- results -------------------------------------------------------------

Pending == [status |-> "pending", code |-> NoFile]
Raised == [status |-> "raised", code |-> NoFile]
Failure(s) == [status |-> s, code |-> NoFile]
Success(code) == [status |-> "success", code |-> <<code>>]

\* A syntax check that accepts every text.
ValidatePythonCodeAcceptsAll(code) == TRUE

\* validate_python_code(code)[0]
ValidatePythonCode(code) == code.wf

\* subprocess.run of pytest: exit 0, non-zero exit, TimeoutExpired after 15 s,
\* or another exception of subprocess.run.
PytestOutcomes == {"exit0", "nonzero", "timeout", "exception"}

\* run_pytest taking a timed-out run for a pass.
RunPytestPassesOnTimeout(outcome) == outcome \in {"exit0", "timeout"}

\* run_pytest(...)[0]: returncode == 0, and False from the except branch.
RunPytest(outcome) == outcome = "exit0"

\* Position in results of the first entry with status success, 0 when none.
FirstSuccess(rs) ==
    IF \E j \in 1..Len(rs) : rs[j].status = "success"
    THEN CHOOSE j \in 1..Len(rs) :
            /\ rs[j].status = "success"
            /\ \A h \in 1..(j - 1) : rs[h].status # "success"
    ELSE 0

\* input(...).lower() == "y"
Answers == {"y", "Y", "n", "yes"}
Lower(a) == IF a = "Y" THEN "y" ELSE a
Affirmative(a) == Lower(a) = "y"

\* ---- state ---------------------------------------------------------------

VARIABLES
    pc,              \* position of apply_changes
    exc,             \* the exception propagating out of the try body, or "none"
    target_abs,      \* os.path.isabs(target_file) after the sandbox prefixing
    parent_exists,   \* the target file's directory exists in the primary tree
    primary,         \* the target file in the primary tree
    primary0,        \* history: the target file before the round
    candidates,      \* list returned by generate_candidates
    i,               \* number of worktrees created by the loop so far
    wt,              \* directories under .agent_worktrees
    wpc,             \* position of each validation task
    future,          \* each task's future
    results,         \* results list of run_validations, in completion order
    origin,          \* history: the task each entry of results came from
    successful_cand, \* position in results of the chosen result, 0 when None
    answer,          \* what input() returned, "none" before
    cleanup_calls,   \* history: number of calls of cleanup_all
    created,         \* history: worktrees created in this round
    create_failed,   \* history: candidates whose create_worktree raised
    writes,          \* history: the place of every write of a validation task
    pytest_runs,     \* history: tasks that invoked run_pytest
    steps,           \* history: what each validation task did, in order
    report,          \* statuses logged as "Candidate 1", "Candidate 2", ...
    removals,         \* history: the runs of cleanup_worktree on a directory
    pc2,             \* position of a second apply_changes on the same repository
    i2,              \* number of worktrees the second round has created
    n2,              \* number of candidates of the second round
    using2           \* names whose worktree a task of the second round runs in

vars == <<pc, exc, target_abs, parent_exists, primary, primary0, candidates,
          i, wt, wpc, future, results, origin,
          successful_cand, answer, cleanup_calls, created, create_failed,
          writes, pytest_runs, steps, report, removals,
          pc2, i2, n2, using2>>

\* The second round, which no step of the first one touches.
other == <<pc2, i2, n2, using2>>

\* The history variables no step of the orchestrator before the selection
\* touches.
hist == <<steps, report, removals>>

Init ==
    /\ pc = "generate"
    /\ exc = "none"
    /\ target_abs \in BOOLEAN
    /\ parent_exists \in BOOLEAN
    /\ primary \in {NoFile, <<OriginalText>>}
    /\ primary # NoFile => parent_exists
    /\ primary0 = primary
    /\ candidates = <<>>
    /\ i = 0
    /\ wt \in [Names -> {Absent, Stale}]
    /\ wpc = [k \in Names |-> "idle"]
    /\ future = [k \in Names |-> Pending]
    /\ results = <<>>
    /\ origin = <<>>
    /\ successful_cand = 0
    /\ answer = "none"
    /\ cleanup_calls = 0
    /\ created = {}
    /\ create_failed = {}
    /\ writes = {}
    /\ pytest_runs = {}
    /\ steps = [k \in Names |-> <<>>]
    /\ report = <<>>
    /\ removals = {}
    /\ pc2 = "off"
    /\ i2 = 0
    /\ n2 = 0
    /\ using2 = {}

\* ---- apply_changes -------------------------------------------------------

\* Leaving the try body by return only, as if the finally block guarded
\* exceptions alone.
UnwindSkipsOnReturn(how) == IF how = "return" THEN "done" ELSE "cleanup"

\* Where control goes when the try body is left by return, by exception or
\* by falling off its end: the finally block.
Unwind(how) == "cleanup"

\* candidates = generate_candidates(...); the empty list returns at once.
\* get_client() may end the call with an exception (sys.exit).
GenerateCandidates ==
    /\ pc = "generate"
    /\ \/ \E cs \in CandidateLists :
            /\ candidates' = cs
            /\ pc' = IF Len(cs) = 0 THEN Unwind("return") ELSE "create"
            /\ exc' = exc
       \/ /\ candidates' = candidates
          /\ pc' = Unwind("raise")
          /\ exc' = "generate_candidates"
    /\ UNCHANGED <<other, target_abs, parent_exists, primary, primary0, i, wt, wpc,
                   future, results, origin, successful_cand, answer,
                   cleanup_calls, created, create_failed, writes, pytest_runs,
                   hist>>

\* The loop submitting each validation as soon as its worktree exists.
CreateWorktreeSubmitsEarly ==
    /\ pc = "create"
    /\ LET k == i + 1 IN
       \E rm \in GitRemoveOutcomes, add \in GitAddOutcomes :
          LET cleaned == CleanupWorktree(wt[k], rm) IN
          /\ removals' = IF wt[k].exists
                          THEN removals \cup {Removal(wt[k], rm)}
                          ELSE removals
          /\ \/ /\ add = "ok"
                /\ wt' = [wt EXCEPT ![k] = Fresh(primary)]
                /\ created' = created \cup {k}
                /\ i' = i + 1
                /\ wpc' = [wpc EXCEPT ![k] = "source"]
                /\ pc' = IF i + 1 = Len(candidates) THEN "submit" ELSE "create"
                /\ UNCHANGED <<exc, create_failed>>
             \/ /\ add # "ok"
                /\ wt' = [wt EXCEPT ![k] = IF add = "failed_partial"
                                            THEN Partial ELSE cleaned]
                /\ create_failed' = create_failed \cup {k}
                /\ exc' = "create_worktree"
                /\ pc' = "cleanup"
                /\ UNCHANGED <<created, i, wpc>>
    /\ UNCHANGED <<other, target_abs, parent_exists, primary, primary0, candidates,
                   future, results, origin, successful_cand, answer,
                   cleanup_calls, writes, pytest_runs, steps, report>>

\* One turn of the loop: wt_manager.create_worktree(f"val-{i}").  An
\* existing directory is cleaned up first; a failing "git worktree add"
\* raises RuntimeError, which leaves the loop and the try body.
CreateWorktree ==
    /\ pc = "create"
    /\ LET k == i + 1 IN
       \E rm \in GitRemoveOutcomes, add \in GitAddOutcomes :
          LET res == CreateWorktreeResult(wt[k], rm, add, primary) IN
          /\ removals' = IF wt[k].exists
                          THEN removals \cup {Removal(wt[k], rm)}
                          ELSE removals
          /\ wt' = [wt EXCEPT ![k] = res.dir]
          /\ \/ /\ res.ok
                /\ created' = created \cup {k}
                /\ i' = i + 1
                /\ pc' = IF i + 1 = Len(candidates) THEN "submit" ELSE "create"
                /\ UNCHANGED <<exc, create_failed>>
             \/ /\ ~res.ok
                /\ create_failed' = create_failed \cup {k}
                /\ exc' = "create_worktree"
                /\ pc' = Unwind("raise")
                /\ UNCHANGED <<created, i>>
    /\ UNCHANGED <<other, target_abs, parent_exists, primary, primary0, candidates,
                   wpc, future, results, origin, successful_cand, answer,
                   cleanup_calls, writes, pytest_runs, steps, report>>

\* ---- run_validations ------------------------------------------------------

Tasks == 1..Len(candidates)

\* executor.submit(func, *args) for every task; max_workers = len(candidates),
\* so every task has a thread of its own.
Submit ==
    /\ pc = "submit"
    /\ wpc' = [k \in Names |-> IF k \in Tasks THEN "source" ELSE "idle"]
    /\ pc' = "collect"
    /\ UNCHANGED <<other, exc, target_abs, parent_exists, primary, primary0,
                   candidates, i, wt, future, results, origin,
                   successful_cand, answer, cleanup_calls, created,
                   create_failed, writes, pytest_runs,
                   hist>>

\* The as_completed loop stopping after its first turn, as a return inside
\* the loop body would.
ExhaustedAfterFirst(rs) == Len(rs) >= 1

\* as_completed is exhausted when every submitted future has been yielded;
\* then "return results".
Exhausted(rs) == Len(rs) = Len(candidates)

\* One turn of "for future in as_completed(...)": results.append(
\* future.result()) for a finished task not taken yet.  result() re-raises
\* the task's exception, which leaves the loop; the with block then waits
\* for the pool.
Collect ==
    /\ pc = "collect"
    /\ \E k \in Tasks :
          /\ wpc[k] = "finished"
          /\ \A j \in 1..Len(origin) : origin[j] # k
          /\ \/ /\ future[k] # Raised
                /\ results' = Append(results, future[k])
                /\ origin' = Append(origin, k)
                /\ pc' = IF Exhausted(Append(results, future[k]))
                         THEN "select" ELSE "collect"
                /\ exc' = exc
             \/ /\ future[k] = Raised
                /\ exc' = "validate_candidate"
                /\ pc' = "join"
                /\ UNCHANGED <<results, origin>>
    /\ UNCHANGED <<other, target_abs, parent_exists, primary, primary0, candidates,
                   i, wt, wpc, future, successful_cand, answer,
                   cleanup_calls, created, create_failed, writes,
                   pytest_runs,
                   hist>>

\* The exception leaving run_validations without waiting for the pool, as
\* shutdown(wait=False) would.
JoinWithoutWait ==
    /\ pc = "join"
    /\ pc' = "cleanup"
    /\ UNCHANGED <<other, exc, target_abs, parent_exists, primary, primary0,
                   candidates, i, wt, wpc, future, results, origin,
                   successful_cand, answer, cleanup_calls, created,
                   create_failed, writes, pytest_runs, hist>>

\* ThreadPoolExecutor.__exit__ with an exception in flight:
\* shutdown(wait=True) returns when every submitted task has finished.
Join ==
    /\ pc = "join"
    /\ \A k \in Tasks : wpc[k] = "finished"
    /\ pc' = Unwind("raise")
    /\ UNCHANGED <<other, exc, target_abs, parent_exists, primary, primary0,
                   candidates, i, wt, wpc, future, results, origin,
                   successful_cand, answer, cleanup_calls, created,
                   create_failed, writes, pytest_runs,
                   hist>>

\* ---- validate_candidate (one pool thread per task) ------------------------

\* Outcomes of os.makedirs followed by open(..., "w") and write.
WriteOutcomes == {"ok", "makedirs_raises", "write_fails"}

\* The write of one file by task k at place p.
WriteRecord(k, p, f) == [task |-> k, at |-> p, file |-> f]

\* open/write without the try around it: the error leaves the function.
WriteFailureRaises == Raised

\* "except Exception as e: return {"status": "file_error", ...}" around
\* open and write.
WriteFailureResult == Failure("file_error")

\* What the first part of validate_candidate did, by outcome.
SourceStep(o) == IF o = "ok" THEN "source_written"
                 ELSE IF o = "write_fails" THEN "source_write_failed"
                 ELSE "source_makedirs_raised"

\* What the test-writing part of validate_candidate did, by outcome.
TestStep(o) == IF o = "ok" THEN "test_written"
               ELSE IF o = "write_fails" THEN "test_write_failed"
               ELSE "test_makedirs_raised"

\* Lines 103-114: resolve the path, make its directory, write the code.
\* makedirs is outside the try: its exception leaves the function; a failing
\* write returns file_error.
ValidateSource(k) ==
    /\ wpc[k] = "source"
    /\ LET p == FullTargetPath(target_abs, k)
           code == candidates[k].new_code
       IN  \E o \in WriteOutcomes :
             /\ parent_exists' = IF p.tree = "primary" /\ o # "makedirs_raises"
                                 THEN TRUE ELSE parent_exists
             /\ steps' = [steps EXCEPT ![k] = Append(@, SourceStep(o))]
             /\ \/ /\ o = "ok"
                   /\ IF p.tree = "primary"
                      THEN primary' = <<code>> /\ wt' = wt
                      ELSE /\ wt' = [wt EXCEPT ![p.wt].src = <<code>>,
                                               ![p.wt].exists = TRUE]
                           /\ primary' = primary
                   /\ writes' = writes \cup {WriteRecord(k, p, "source")}
                   /\ wpc' = [wpc EXCEPT ![k] = "syntax"]
                   /\ future' = future
                \/ /\ o = "write_fails"
                   /\ future' = [future EXCEPT ![k] = WriteFailureResult]
                   /\ wpc' = [wpc EXCEPT ![k] = "finished"]
                   /\ UNCHANGED <<primary, wt, writes>>
                \/ /\ o = "makedirs_raises"
                   /\ future' = [future EXCEPT ![k] = Raised]
                   /\ wpc' = [wpc EXCEPT ![k] = "finished"]
                   /\ UNCHANGED <<primary, wt, writes>>
    /\ UNCHANGED <<other, pc, exc, target_abs, primary0, candidates, i, results,
                   origin, successful_cand, answer, cleanup_calls, created,
                   create_failed, pytest_runs, report, removals>>

\* Lines 116-122 and 135: the syntax check; without test_code a well-formed
\* candidate is a success.
ValidateSyntax(k) ==
    /\ wpc[k] = "syntax"
    /\ steps' = [steps EXCEPT ![k] =
                    Append(@, IF ValidatePythonCode(candidates[k].new_code)
                              THEN "syntax_ok" ELSE "syntax_failed")]
    /\ LET c == candidates[k] IN
       IF ~ValidatePythonCode(c.new_code)
       THEN /\ future' = [future EXCEPT ![k] = Failure("syntax_error")]
            /\ wpc' = [wpc EXCEPT ![k] = "finished"]
       ELSE IF c.test_code # ""
       THEN /\ wpc' = [wpc EXCEPT ![k] = "test"]
            /\ future' = future
       ELSE /\ future' = [future EXCEPT ![k] = Success(c.new_code)]
            /\ wpc' = [wpc EXCEPT ![k] = "finished"]
    /\ UNCHANGED <<other, pc, exc, target_abs, parent_exists, primary, primary0,
                   candidates, i, wt, results, origin, successful_cand,
                   answer, cleanup_calls, created, create_failed, writes,
                   pytest_runs, report, removals>>

\* Lines 123-129: write sandbox/test_candidate.py into the worktree.
ValidateWriteTest(k) ==
    /\ wpc[k] = "test"
    /\ LET p == TestFilename(k) IN
       \E o \in WriteOutcomes :
          /\ steps' = [steps EXCEPT ![k] = Append(@, TestStep(o))]
          /\ \/ /\ o = "ok"
                /\ wt' = [wt EXCEPT ![p.wt].test = TRUE, ![p.wt].exists = TRUE]
                /\ writes' = writes \cup {WriteRecord(k, p, "test")}
                /\ wpc' = [wpc EXCEPT ![k] = "pytest"]
                /\ future' = future
             \/ /\ o = "write_fails"
                /\ future' = [future EXCEPT ![k] = WriteFailureResult]
                /\ wpc' = [wpc EXCEPT ![k] = "finished"]
                /\ UNCHANGED <<wt, writes>>
             \/ /\ o = "makedirs_raises"
                /\ future' = [future EXCEPT ![k] = Raised]
                /\ wpc' = [wpc EXCEPT ![k] = "finished"]
                /\ UNCHANGED <<wt, writes>>
    /\ UNCHANGED <<other, pc, exc, target_abs, parent_exists, primary, primary0,
                   candidates, i, results, origin, successful_cand, answer,
                   cleanup_calls, created, create_failed, pytest_runs,
                   report, removals>>

\* A pytest run without timeout on a test that never ends: the task never
\* finishes.
ValidateRunPytestHangs(k) ==
    /\ wpc[k] = "pytest"
    /\ FALSE
    /\ UNCHANGED vars

\* Lines 131-135: run pytest in the worktree and classify.
ValidateRunPytest(k) ==
    /\ wpc[k] = "pytest"
    /\ \E o \in PytestOutcomes :
          /\ future' = [future EXCEPT ![k] =
                           IF RunPytest(o)
                           THEN Success(candidates[k].new_code)
                           ELSE Failure("test_failure")]
          /\ steps' = [steps EXCEPT ![k] = Append(@, o)]
    /\ pytest_runs' = pytest_runs \cup {k}
    /\ wpc' = [wpc EXCEPT ![k] = "finished"]
    /\ UNCHANGED <<other, pc, exc, target_abs, parent_exists, primary, primary0,
                   candidates, i, wt, results, origin, successful_cand,
                   answer, cleanup_calls, created, create_failed, writes,
                   report, removals>>

\* ---- selection, confirmation, apply, cleanup ------------------------------

\* Lines 253-254: "for i, res in enumerate(results)" logs res["status"] as
\* "Candidate {i + 1} failure"; entry j of the report is what is printed for
\* "Candidate j".
FailureReport(rs) == [j \in 1..Len(rs) |-> rs[j].status]

\* Lines 233-240 and 251-254: the first result with status success, in the
\* order of the results list; without one the statuses are logged and the try
\* body ends.
SelectWinner ==
    /\ pc = "select"
    /\ successful_cand' = FirstSuccess(results)
    /\ pc' = IF FirstSuccess(results) # 0 THEN "confirm" ELSE Unwind("fall")
    /\ report' = IF FirstSuccess(results) # 0 THEN report
                 ELSE FailureReport(results)
    /\ UNCHANGED <<other, exc, target_abs, parent_exists, primary, primary0,
                   candidates, i, wt, wpc, future, results, origin, answer,
                   cleanup_calls, created, create_failed, writes,
                   pytest_runs, steps, removals>>

\* Lines 242-245 and 250: show the diff and ask.  input() may raise
\* (EOFError on a closed stdin).
Confirm ==
    /\ pc = "confirm"
    /\ \/ \E a \in Answers :
            /\ answer' = a
            /\ pc' = IF Affirmative(a) THEN "apply" ELSE Unwind("fall")
            /\ exc' = exc
       \/ /\ exc' = "input"
          /\ pc' = Unwind("raise")
          /\ answer' = answer
    /\ UNCHANGED <<other, target_abs, parent_exists, primary, primary0, candidates,
                   i, wt, wpc, future, results, origin, successful_cand,
                   cleanup_calls, created, create_failed, writes,
                   pytest_runs,
                   hist>>

\* Lines 246-248: open(target_file, "w") in the primary tree and write the
\* chosen code.  No directory is made here: open raises FileNotFoundError
\* when the target's directory is missing.
Apply ==
    /\ pc = "apply"
    /\ IF parent_exists
       THEN /\ primary' = results[successful_cand].code
            /\ pc' = Unwind("fall")
            /\ exc' = exc
       ELSE /\ primary' = primary
            /\ pc' = Unwind("raise")
            /\ exc' = "open"
    /\ UNCHANGED <<other, target_abs, parent_exists, primary0, candidates, i, wt,
                   wpc, future, results, origin, successful_cand, answer,
                   cleanup_calls, created, create_failed, writes,
                   pytest_runs,
                   hist>>

\* The finally block: wt_manager.cleanup_all() calls cleanup_worktree for
\* every entry of .agent_worktrees; afterwards the call returns or the
\* exception goes on to the caller.
CleanupAll ==
    /\ pc = "cleanup"
    /\ \E o \in [Names -> GitRemoveOutcomes] :
          /\ wt' = [k \in Names |-> CleanupWorktree(wt[k], o[k])]
          /\ removals' = removals \cup
                 {Removal(wt[k], o[k]) : k \in {n \in Names : wt[n].exists}}
          /\ exc' = IF \E k \in Names : CleanupWorktreeRaises(wt[k], o[k])
                    THEN "cleanup_worktree" ELSE exc
    /\ cleanup_calls' = cleanup_calls + 1
    /\ pc' = "done"
    /\ UNCHANGED <<other, target_abs, parent_exists, primary, primary0,
                   candidates, i, wpc, future, results, origin,
                   successful_cand, answer, created, create_failed, writes,
                   pytest_runs, steps, report>>

Validate ==
    \E k \in Names :
       \/ ValidateSource(k)
       \/ ValidateSyntax(k)
       \/ ValidateWriteTest(k)
       \/ ValidateRunPytest(k)

Next ==
    \/ GenerateCandidates
    \/ CreateWorktree
    \/ Submit
    \/ Validate
    \/ Collect
    \/ Join
    \/ SelectWinner
    \/ Confirm
    \/ Apply
    \/ CleanupAll

Spec == Init /\ [][Next]_vars

\* Every thread is scheduled, every subprocess ends (pytest within its
\* timeout of 15 s) and input() is answered: a step that can be taken is
\* taken.
FairSpec == Spec /\ WF_vars(Next)

\* ---- a second round on the same repository -------------------------------
\* Another apply_changes invocation with the same working directory: its
\* WorktreeManager(".") has the same .agent_worktrees root and its loop the
\* same names val-0, val-1, ...  It is modelled by what it does to the
\* directories under that root and by which of them its tasks run in.

first == <<pc, exc, target_abs, parent_exists, primary, primary0, candidates,
           i, wpc, future, results, origin, successful_cand, answer,
           cleanup_calls, created, create_failed, writes, pytest_runs, hist>>

\* Entry and generate_candidates of the second round, with n candidates.
OtherStart ==
    /\ pc2 = "off"
    /\ \E n \in 1..Count : n2' = n
    /\ pc2' = "create"
    /\ UNCHANGED <<first, wt, i2, using2>>

\* create_worktree(f"val-{i}") of the second round.
OtherCreateWorktree ==
    /\ pc2 = "create"
    /\ LET k == i2 + 1 IN
       \E rm \in GitRemoveOutcomes, add \in GitAddOutcomes :
          LET res == CreateWorktreeResult(wt[k], rm, add, primary) IN
          /\ wt' = [wt EXCEPT ![k] = res.dir]
          /\ \/ /\ res.ok
                /\ i2' = i2 + 1
                /\ pc2' = IF i2 + 1 = n2 THEN "submit" ELSE "create"
             \/ /\ ~res.ok
                /\ i2' = i2
                /\ pc2' = "cleanup"
    /\ UNCHANGED <<first, n2, using2>>

\* run_validations of the second round submits one task per worktree.
OtherSubmit ==
    /\ pc2 = "submit"
    /\ using2' = 1..n2
    /\ pc2' = "validate"
    /\ UNCHANGED <<first, wt, i2, n2>>

\* validate_candidate of the second round returns or raises in worktree k.
OtherTaskEnds ==
    /\ pc2 = "validate"
    /\ \E k \in using2 : using2' = using2 \ {k}
    /\ UNCHANGED <<first, wt, pc2, i2, n2>>

\* The pool of the second round is joined and its try body left.
OtherJoin ==
    /\ pc2 = "validate"
    /\ using2 = {}
    /\ pc2' = "cleanup"
    /\ UNCHANGED <<first, wt, i2, n2, using2>>

\* cleanup_all of the second round, in its finally block.
OtherCleanupAll ==
    /\ pc2 = "cleanup"
    /\ \E o \in [Names -> GitRemoveOutcomes] :
          wt' = [k \in Names |-> CleanupWorktree(wt[k], o[k])]
    /\ pc2' = "done"
    /\ UNCHANGED <<first, i2, n2, using2>>

\* The first round is given a relative target in an existing directory and
\* an empty .agent_worktrees root.
TwoRoundInit ==
    /\ Init
    /\ ~target_abs
    /\ primary # NoFile
    /\ wt = [k \in Names |-> Absent]

TwoRoundNext ==
    \/ Next
    \/ OtherStart
    \/ OtherCreateWorktree
    \/ OtherSubmit
    \/ OtherTaskEnds
    \/ OtherJoin
    \/ OtherCleanupAll

TwoRoundSpec == TwoRoundInit /\ [][TwoRoundNext]_vars

\* ---- properties -----------------------------------------------------------

\* Tasks whose validation ended with status success.
Succeeded == {k \in Tasks : future[k].status = "success"}

\* Some entry of the results list has status success.
SomeSuccess == \E j \in 1..Len(results) : results[j].status = "success"

\* C1: no leak.  When the round has ended, no directory is left under
\* .agent_worktrees, whatever the candidates' outcomes were and wherever an
\* exception left the try body; so every worktree created in the round has
\* been destroyed.
NoLeak ==
    pc = "done" => \A k \in Names : ~wt[k].exists

\* A round that created a worktree for each of Count candidates, lost a
\* validation task to an exception, and has ended.
NoLeakWitness ==
    /\ pc = "done"
    /\ Cardinality(created) = Count
    /\ exc = "validate_candidate"

\* C2: cleanup_all runs exactly once on every path through the round: it has
\* not run before the round ends and has run once when it has ended, after
\* apply, rejection, total failure, the return on an empty list and every
\* exception of the try body.
CleanupExactlyOnce ==
    cleanup_calls = (IF pc = "done" THEN 1 ELSE 0)

\* A round ended by the exception of the write to the primary tree.
CleanupExactlyOnceWitness ==
    /\ pc = "done"
    /\ exc = "open"
    /\ cleanup_calls = 1

\* C3: no mutation on total failure.  When the round has ended and no
\* validation result has status success, the target file of the primary tree
\* is what it was before the round.
NoMutationOnTotalFailure ==
    (pc = "done" /\ ~SomeSuccess) => primary = primary0

\* C4: exactly-one apply.  When the round has ended, some result was a
\* success and the answer was affirmative, the target file of the primary
\* tree holds the source text of a candidate whose validation succeeded.
ExactlyOneApply ==
    (pc = "done" /\ SomeSuccess /\ Affirmative(answer)) =>
        \E k \in Succeeded : primary = <<candidates[k].new_code>>

\* C5: the confirmation is the sole gate.  The target file of the primary
\* tree differs from its content before the round only after an affirmative
\* answer; before the answer and after a rejection it is unchanged.
ConfirmationIsSoleGate ==
    primary # primary0 => Affirmative(answer)

\* C6: the primary tree is not written during validation.  Every write of a
\* validation task lands in a worktree, and the target file of the primary
\* tree changes only once every task has finished and a winner is selected.
PrimaryUntouchedDuringValidation ==
    /\ \A w \in writes : w.at.tree = "worktree"
    /\ primary # primary0 =>
           /\ successful_cand # 0
           /\ \A k \in Tasks : wpc[k] = "finished"

\* C7: fault containment of workspace creation.  When create_worktree raised
\* for a candidate, every other candidate of the round still has a
\* validation result when the round ends.
CreationFaultContained ==
    (pc = "done" /\ create_failed # {}) =>
        \A k \in Tasks \ create_failed :
            \E j \in 1..Len(origin) : origin[j] = k

\* C8: no validation error escapes the worker boundary.  When a validation
\* task raised, run_validations still returns: the round ends without that
\* exception, with one result per task, the raising task's being file_error
\* or test_failure.
NoErrorEscapesWorker ==
    (pc = "done" /\ \E k \in Tasks : future[k] = Raised) =>
        /\ exc # "validate_candidate"
        /\ Len(results) = Len(candidates)
        /\ \A j \in 1..Len(results) :
              future[origin[j]] = Raised =>
                 results[j].status \in {"file_error", "test_failure"}

\* C9: isolation.  Every file a validation task writes lies in that task's
\* own worktree, and no place is written by two tasks.
Isolation ==
    /\ \A w \in writes : w.at = InWorktree(w.task)
    /\ \A w1, w2 \in writes : w1.at = w2.at => w1.task = w2.task

\* C10: deterministic winner.  The chosen result is that of the successful
\* candidate with the lowest index, in every order of completion.
WinnerIsLowestSuccess ==
    successful_cand # 0 =>
        \A h \in Succeeded : origin[successful_cand] <= h

\* run_validations has returned its list: the selection is reached or past.
Returned ==
    pc \in {"select", "confirm", "apply"} \/ successful_cand # 0 \/ report # <<>>

\* The selection has been made.
Selected == successful_cand # 0 \/ report # <<>>

\* Task k is submitted and has not finished.
Running(k) == wpc[k] \notin {"idle", "finished"}

\* The last thing task k did, "" before its first step.
LastStep(k) == IF steps[k] = <<>> THEN "" ELSE steps[k][Len(steps[k])]

\* C11: attribution.  In the all-failed report the status logged as
\* "Candidate j" is the status of the j-th submitted candidate, whatever the
\* order in which the tasks completed.
ReportAttributed ==
    \A j \in 1..Len(report) : report[j] = future[j].status

\* C12: exactly one result per candidate.  Once run_validations has
\* returned, the results list has one entry per dispatched task: as many
\* entries as candidates, each task's result exactly once.
OneResultPerTask ==
    Returned =>
        /\ Len(results) = Len(candidates)
        /\ \A k \in Tasks :
              Cardinality({j \in 1..Len(origin) : origin[j] = k}) = 1
        /\ \A j \in 1..Len(results) : results[j] = future[origin[j]]

\* Both tasks' results returned, the second task's first.
OneResultPerTaskWitness ==
    /\ pc = "select"
    /\ origin = <<2, 1>>

\* C13: no tests on syntax failure.  For a candidate whose source text does
\* not parse, the test file is never written and pytest never run, and once
\* the source is written and the task has finished its result is
\* syntax_error; pytest runs only for a text that parses.
NoTestsOnSyntaxFailure ==
    \A k \in Tasks :
       ~candidates[k].new_code.wf =>
          /\ k \notin pytest_runs
          /\ WriteRecord(k, TestFilename(k), "test") \notin writes
          /\ (wpc[k] = "finished" /\ steps[k][1] = "source_written") =>
                 future[k] = Failure("syntax_error")

\* A candidate with a test whose source does not parse has finished.
NoTestsOnSyntaxFailureWitness ==
    \E k \in Tasks :
       /\ ~candidates[k].new_code.wf
       /\ candidates[k].test_code # ""
       /\ future[k] = Failure("syntax_error")

\* C14: a failing write of the source text ends the validation with a
\* file_error result: nothing follows it (no syntax check, no test file, no
\* pytest) and the task returns a value, not an exception.
SourceWriteFailureIsFileError ==
    \A k \in Tasks :
       (steps[k] # <<>> /\ steps[k][1] = "source_write_failed") =>
          /\ steps[k] = <<"source_write_failed">>
          /\ wpc[k] = "finished"
          /\ future[k] = Failure("file_error")
          /\ k \notin pytest_runs

\* A well-formed candidate with a test whose source write failed, its
\* file_error collected.
SourceWriteFailureWitness ==
    \E j \in 1..Len(results) :
       /\ steps[origin[j]] = <<"source_write_failed">>
       /\ candidates[origin[j]].new_code.wf
       /\ candidates[origin[j]].test_code # ""
       /\ results[j].status = "file_error"

\* C15: a pytest run that exits non-zero, raises or times out gives its
\* candidate a test_failure result, and when a task timed out and a sibling
\* succeeded the selection picks a successful result.
TestRunnerFailuresAreTestFailure ==
    /\ \A k \in Tasks :
          LastStep(k) \in {"nonzero", "exception", "timeout"} =>
             future[k] = Failure("test_failure")
    /\ (Selected /\ \E k \in Tasks : LastStep(k) = "timeout"
                 /\ \E h \in Tasks : h # k /\ LastStep(h) \in {"exit0", "syntax_ok"}) =>
          /\ successful_cand # 0
          /\ results[successful_cand].status = "success"
          /\ LastStep(origin[successful_cand]) \in {"exit0", "syntax_ok"}

\* A task timed out, was collected first, and its sibling was selected.
TestRunnerFailuresWitness ==
    /\ successful_cand = 2
    /\ LastStep(origin[1]) = "timeout"
    /\ results[1].status = "test_failure"

\* C16: cleanup_worktree is idempotent and raises nothing.  On a missing
\* directory it changes nothing; a second call leaves what the first left;
\* every run so far, and every run possible now, ends with the directory
\* gone and no exception, also when git did not remove it.
CleanupWorktreeIdempotent ==
    /\ \A r \in removals : ~r.left /\ ~r.raised
    /\ \A k \in Names : \A o1, o2 \in GitRemoveOutcomes :
          LET once == CleanupWorktree(wt[k], o1) IN
          /\ ~once.exists
          /\ CleanupWorktree(once, o2) = once
          /\ ~CleanupWorktreeRaises(wt[k], o1)
          /\ ~CleanupWorktreeRaises(once, o2)
          /\ ~wt[k].exists => once = wt[k]

\* The round has ended and some run of cleanup_worktree had to delete the
\* directory itself because git did not.
CleanupWorktreeIdempotentWitness ==
    /\ pc = "done"
    /\ \E r \in removals : ~r.by_git /\ ~r.left

\* C17: lifecycle order.  A worktree is created before its validation
\* starts and exists as long as the validation runs; a worktree created in
\* the round is gone only when the round has ended, after cleanup_all, with
\* its validation idle or finished, so nothing is written or validated in
\* it afterwards.
LifecycleOrder ==
    /\ \A k \in Names : wpc[k] # "idle" => k \in created
    /\ \A k \in Names : Running(k) => wt[k].exists
    /\ \A k \in created :
          ~wt[k].exists =>
             /\ pc = "done"
             /\ cleanup_calls = 1
             /\ ~Running(k)

\* A worktree was created, validated in to the end, and destroyed.
LifecycleOrderWitness ==
    \E k \in created :
       /\ ~wt[k].exists
       /\ wpc[k] = "finished"
       /\ LastStep(k) = "exit0"

\* C18: creations and removals of worktrees never overlap a running
\* validation: while the loop creates worktrees no task has been submitted,
\* when cleanup_all is due every task is idle or finished, and a task runs
\* only while run_validations is collecting or joining.
CreateCleanupExclusive ==
    /\ pc = "create" => \A k \in Names : wpc[k] = "idle"
    /\ pc = "cleanup" => \A k \in Names : ~Running(k)
    /\ (\E k \in Names : Running(k)) => pc \in {"collect", "join"}

\* cleanup_all is due after a task raised in a round of Count candidates.
CreateCleanupExclusiveWitness ==
    /\ pc = "cleanup"
    /\ exc = "validate_candidate"
    /\ Len(candidates) = Count

\* C19: termination.  Under FairSpec every round ends, and once the tasks
\* are submitted every one of them finishes.
RoundTerminates ==
    /\ <>(pc = "done")
    /\ (pc = "collect") ~> (\A k \in Tasks : wpc[k] = "finished")

\* A round that ended after a pytest run timed out.
RoundTerminatesWitness ==
    /\ pc = "done"
    /\ \E k \in Tasks : LastStep(k) = "timeout"

\* C20: no destruction under a running task.  While any validation task is
\* running, cleanup_all has not been called and every worktree created in
\* the round exists, also after a sibling's exception has left the
\* as_completed loop.
NoDestroyWhileRunning ==
    (\E k \in Names : Running(k)) =>
        /\ cleanup_calls = 0
        /\ \A n \in created : wt[n].exists

\* An exception is leaving run_validations while another task still runs.
NoDestroyWhileRunningWitness ==
    /\ pc = "join"
    /\ \E k \in Names : Running(k)

\* C21: create_worktree hands out a new checkout only.  A worktree created
\* in the round holds no test file but the one its own task wrote and no
\* source but the checkout's or its own candidate's; before the tasks are
\* submitted it is exactly the new checkout.  A candidate whose
\* create_worktree failed got no path: it is not among the created and no
\* validation runs for it.
FreshWorktreeHandedOut ==
    /\ \A k \in created :
          /\ pc \in {"create", "submit"} => wt[k] = Fresh(primary0)
          /\ (wt[k].exists /\ wt[k].test) =>
                 WriteRecord(k, TestFilename(k), "test") \in writes
          /\ wt[k].exists =>
                 wt[k].src \in {primary0, <<candidates[k].new_code>>}
    /\ \A k \in create_failed : k \notin created /\ wpc[k] = "idle"

\* Both worktrees are handed out and a directory left by an earlier round
\* was in the way of one of them.
FreshWorktreeHandedOutWitness ==
    /\ pc = "submit"
    /\ created = Names
    /\ removals # {}

\* C22: a round destroys only its own worktrees.  While a validation task
\* of one round runs in a worktree, the directory is there, and the source
\* file the task wrote into it is still the task's candidate: no
\* create_worktree and no cleanup_all of the other round has removed or
\* replaced it.
OnlyOwnWorktreesDestroyed ==
    /\ \A k \in Names : Running(k) => wt[k].exists
    /\ \A k \in Names :
          wpc[k] \in {"syntax", "test", "pytest"} /\ ~target_abs =>
             wt[k].src = <<candidates[k].new_code>>
    /\ \A k \in using2 : wt[k].exists

====
